---- MODULE Spec2Model ----
(***************************************************************************)
(* Stop-and-wait file transfer over UDP: sender.c (rsend, checkAck,        *)
(* establish_connection), receiver.c (rrecv, send_packet_ack,              *)
(* establish_connection) and include/udp.h.                                *)
(*                                                                         *)
(* Two single-threaded processes exchange datagrams over a network that    *)
(* may lose, duplicate and reorder them.  A datagram is what the bytes on  *)
(* the wire are: its size and its leading words.  It carries no type tag,  *)
(* because the programs give it none: each recvfrom interprets whatever    *)
(* arrives by the layout of the struct it is read into.                    *)
(*                                                                         *)
(* The source file holds fileLen pairwise distinct bytes, so a payload is  *)
(* identified by the range [off, off+len) of the file it was read from.    *)
(***************************************************************************)
EXTENDS Integers, Sequences, FiniteSets, TLC

(* -- udp.h -- *)
MAX_BUFFER_SIZE == 8192
HEADER_SIZE == 12
DEFAULT_TIMEOUT == 100000
MAX_RETRIES == 3
MAX_ACK_SIZE == 4
SYN_ACK_DEFAULT_TIMEOUT_MILLISEC == 100000
SYN_ACK_MAX_TIMEOUT_MILLISEC == 1600
SYN_SIZE == 4
ACK_SIZE == 4
SYN_ACK_SIZE == 8

(* -- bounds of the model -- *)
\* rand() yields 0..RAND_MAX; the model draws from 0..MaxSeed
MaxSeed == 1
\* file lengths and targets are k * MAX_BUFFER_SIZE + r, k <= MaxFull
MaxFull == 1
\* consecutive failures the model follows for one outstanding packet
MaxFailures == 4
\* datagrams the network may drop in the fair specifications
MaxLoss == 2
\* deliveries counted per sequence number (saturating)
MaxCount == 2

Rems == {0, 1808}
Lens == {k * MAX_BUFFER_SIZE + r : k \in 0..MaxFull, r \in Rems}
\* bytes_to_xfer for a file of len bytes: a length up to the file's, or more
\* than the file holds
Targets(len) == {t \in Lens : t <= len} \cup {len + 1}
Seeds == 0..MaxSeed
\* sequence numbers a transfer can reach: seed + one per packet acknowledged
SeqRange == 0..(MaxSeed + MaxFull + 3)
\* contents of memory the program never wrote
GarbageLens == {0, 1}
Garbage == 0 - 1

Min(a, b) == IF a < b THEN a ELSE b

(* -- datagrams: size in bytes, bytes 0..3 (w0), bytes 4..7 (w1), byte 8  *)
(*    (last), and the file offset the payload bytes were read from -- *)
Word(n) == [sz |-> 4, w0 |-> n, w1 |-> 0, last |-> FALSE, off |-> 0]
Syn(s) == Word(s)
Ack(a) == Word(a)
DataAck(n) == Word(n)
SynAck(r, a) == [sz |-> SYN_ACK_SIZE, w0 |-> r, w1 |-> a, last |-> FALSE, off |-> 0]
DataPacket(h, o) ==
    [sz |-> HEADER_SIZE + MAX_BUFFER_SIZE, w0 |-> h.sequenceNumber,
     w1 |-> h.messageLength, last |-> h.lastPacket, off |-> o]

\* recvfrom into a buffer of buflen bytes: the datagram is cut to the buffer
RecvSize(d, buflen) == Min(d.sz, buflen)

\* errno after a recvfrom that returned -1: the two names of a receive timeout,
\* and a failure of the socket itself
Errnos == {"EAGAIN", "EWOULDBLOCK", "EBADF"}
NoErrno == "none"

TimeoutErrnos == {"EAGAIN", "EWOULDBLOCK"}

\* a handshake that takes no errno for a timeout
IsTimeoutNever(e) == FALSE

\* the test both programs make of errno after a failed recvfrom
IsTimeout(e) == e \in TimeoutErrnos

NoPacket == [sequenceNumber |-> 0, messageLength |-> 0, lastPacket |-> FALSE, off |-> 0]

VARIABLES
    fileLen,          \* size of the source file
    target,           \* argv: bytes_to_xfer
    spc,              \* sender: where it is
    bytesToTransfer,  \* rsend: bytesToTransfer after the clamp to the file size
    hsTimeoutS,       \* sender establish_connection: timeout
    seqNum,           \* sender: _sequenceNumber
    totalBytesSent,   \* rsend: totalBytesSent
    filePos,          \* read position of the source file
    packet,           \* rsend: header + packet_data of the packet buffer
    timeout,          \* rsend: timeout
    retries,          \* rsend: retries
    rpc,              \* receiver: where it is
    hsTimeoutR,       \* receiver establish_connection: timeout
    syn_ack,          \* receiver establish_connection: syn_ack
    latest,           \* receiver: _latestSequenceNumber
    sink,             \* destination file: the fwrite calls, in order
    toReceiver,       \* datagrams in flight to the receiver
    toSender,         \* datagrams in flight to the sender
    sentData,         \* history: the distinct data packets the sender emitted
    failures,         \* history: consecutive failures for the outstanding packet
    delivCnt,         \* history: data packets taken by rrecv, per sequence number
    ackCnt,           \* history: data-acks sent by rrecv, per sequence number
    synAcked,         \* history: sequence number of the Syn the responder acknowledged
    firstSeq,         \* history: sequence number the sender left the handshake with
    lostAcks,         \* history: outstanding sequence numbers whose data-ack was dropped
    counting,         \* history: whether delivCnt and ackCnt are kept
    exitErrno,        \* history: errno of the failed call each process exited on
    lossBudget        \* history: drops left to the network in the fair specifications

senderVars == <<spc, bytesToTransfer, hsTimeoutS, seqNum, totalBytesSent, filePos,
                packet, timeout, retries>>
receiverVars == <<rpc, hsTimeoutR, syn_ack, latest, sink>>
historyVars == <<sentData, failures, delivCnt, ackCnt, synAcked, firstSeq, lostAcks,
                 counting, exitErrno, lossBudget>>
vars == <<fileLen, target, senderVars, receiverVars, toReceiver, toSender, historyVars>>

\* rsend: the clamp of bytesToTransfer to the file size
ClampTarget(len, t) == IF len < t THEN len ELSE t

InitProgram ==
    /\ fileLen \in Lens
    /\ target \in Targets(fileLen)
    /\ spc = "syn"
    /\ bytesToTransfer = ClampTarget(fileLen, target)
    /\ hsTimeoutS = SYN_ACK_DEFAULT_TIMEOUT_MILLISEC
    /\ seqNum = 0
    /\ totalBytesSent = 0
    /\ filePos = 0
    /\ packet = NoPacket
    /\ timeout = DEFAULT_TIMEOUT
    /\ retries = 0
    /\ rpc = "listen"
    /\ hsTimeoutR = SYN_ACK_DEFAULT_TIMEOUT_MILLISEC
    /\ syn_ack = [sequenceNumber |-> 0, ackNumber |-> 0]
    /\ latest = 0
    /\ sink = <<>>
    /\ toReceiver = {}
    /\ toSender = {}
    /\ sentData = {}
    /\ failures = 0
    /\ delivCnt = [n \in SeqRange |-> 0]
    /\ ackCnt = [n \in SeqRange |-> 0]
    /\ synAcked = Garbage
    /\ firstSeq = Garbage
    /\ lostAcks = {}
    /\ exitErrno = [s |-> NoErrno, r |-> NoErrno]
    /\ lossBudget = MaxLoss

Init == InitProgram /\ counting = FALSE

\* the same program, with the deliveries counted
InitCount == InitProgram /\ counting = TRUE

\* the same program, asked to send a whole file
InitFair == Init /\ target = fileLen

\* both establish_connection functions: the doubling of the handshake timeout
HandshakeBackoff(t) == IF t < SYN_ACK_MAX_TIMEOUT_MILLISEC THEN t * 2 ELSE t

(* ---------------- sender: establish_connection ---------------- *)

\* top of the loop: draw the sequence number, send the Syn
SenderSendSyn ==
    /\ spc = "syn"
    /\ \E s \in Seeds :
         /\ seqNum' = s
         /\ toReceiver' = toReceiver \cup {Syn(s)}
    /\ spc' = "synack"
    /\ UNCHANGED <<fileLen, target, bytesToTransfer, hsTimeoutS, totalBytesSent, filePos,
                   packet, timeout, retries, receiverVars, toSender, historyVars>>

\* recvfrom returned a datagram d; keep tells whether the network holds a copy
SenderRecvSynAck(d, keep) ==
    /\ spc = "synack"
    /\ d \in toSender
    /\ toSender' = IF keep THEN toSender ELSE toSender \ {d}
    /\ IF RecvSize(d, SYN_ACK_SIZE) = SYN_ACK_SIZE
       THEN /\ toReceiver' = toReceiver \cup {Ack(d.w0 + 1)}
            /\ spc' = "send"
            /\ firstSeq' = seqNum
       ELSE /\ spc' = "syn"
            /\ UNCHANGED <<toReceiver, firstSeq>>
    /\ UNCHANGED <<fileLen, target, bytesToTransfer, hsTimeoutS, seqNum, totalBytesSent,
                   filePos, packet, timeout, retries, receiverVars, sentData, failures,
                   delivCnt, ackCnt, synAcked, lostAcks, counting, exitErrno, lossBudget>>

\* recvfrom timed out: back off and send the Syn again
SenderSynTimeout ==
    /\ spc = "synack"
    /\ hsTimeoutS' = HandshakeBackoff(hsTimeoutS)
    /\ spc' = "syn"
    /\ UNCHANGED <<fileLen, target, bytesToTransfer, seqNum, totalBytesSent, filePos,
                   packet, timeout, retries, receiverVars, toReceiver, toSender,
                   historyVars>>

\* recvfrom failed with an errno that is not a timeout: perror, exit(1)
SenderSynFault(e) ==
    /\ spc = "synack"
    /\ spc' = "abort"
    /\ exitErrno' = [exitErrno EXCEPT !.s = e]
    /\ UNCHANGED <<fileLen, target, bytesToTransfer, hsTimeoutS, seqNum, totalBytesSent,
                   filePos, packet, timeout, retries, receiverVars, toReceiver, toSender,
                   sentData, failures, delivCnt, ackCnt, synAcked, firstSeq, lostAcks,
                   counting, lossBudget>>

\* recvfrom returned -1 with errno e
SenderSynRecvFail(e) == IF IsTimeout(e) THEN SenderSynTimeout ELSE SenderSynFault(e)

(* ---------------- sender: rsend, checkAck ---------------- *)

\* rsend: fread of the next chunk at the file position
BytesRead(len, pos) == Min(MAX_BUFFER_SIZE, len - pos)

\* rsend: the test that sets header.lastPacket
IsLastPacket(total, goal) == total + MAX_BUFFER_SIZE > goal

\* rsend: what the sendto of the whole packet buffer returns
BytesSentThisTime == HEADER_SIZE + MAX_BUFFER_SIZE

\* checkAck: what an accepted ack adds to totalBytesSent
Accounted(sent) == sent - HEADER_SIZE

\* a checkAck that leaves the timeout as it was on a failure
BackoffSame(t) == t

\* checkAck: *timeout *= 2
Backoff(t) == t * 2

\* checkAck: the test of the retry counter, made on a receive timeout only
RetryAllowed(r) == r < MAX_RETRIES

\* rsend: setsockopt(SO_RCVTIMEO) with tv_sec = 0, tv_usec = t.  A tv_usec of a
\* second or more is outside the range of a timeval: whether the call rejects
\* it depends on the platform, so both outcomes are followed.
SetsockoptMayFail(t) == t >= 1000000

\* an rsend that reads the file before every send
ReadsNewAlways(r) == TRUE

\* rsend: the test that guards the fread and the building of the header
ReadsNew(r) == r = 0

\* rsend: the packet buffer after the retries == 0 branch
NextPacket ==
    [sequenceNumber |-> seqNum,
     messageLength |-> BytesRead(fileLen, filePos),
     lastPacket |-> IsLastPacket(totalBytesSent, bytesToTransfer),
     off |-> filePos]

\* the while condition fails: fclose, close, return
SenderFinish ==
    /\ spc = "send"
    /\ ~(totalBytesSent < bytesToTransfer)
    /\ spc' = "done"
    /\ UNCHANGED <<fileLen, target, bytesToTransfer, hsTimeoutS, seqNum, totalBytesSent,
                   filePos, packet, timeout, retries, receiverVars, toReceiver, toSender,
                   historyVars>>

\* setsockopt fails: perror, exit(1)
SenderSetsockoptFail ==
    /\ spc = "send"
    /\ totalBytesSent < bytesToTransfer
    /\ SetsockoptMayFail(timeout)
    /\ spc' = "abort"
    /\ exitErrno' = [exitErrno EXCEPT !.s = "EDOM"]
    /\ UNCHANGED <<fileLen, target, bytesToTransfer, hsTimeoutS, seqNum, totalBytesSent,
                   filePos, packet, timeout, retries, receiverVars, toReceiver, toSender,
                   sentData, failures, delivCnt, ackCnt, synAcked, firstSeq, lostAcks,
                   counting, lossBudget>>

\* one pass of the loop body up to the call of checkAck
SenderSend ==
    /\ spc = "send"
    /\ totalBytesSent < bytesToTransfer
    /\ IF ReadsNew(retries)
       THEN /\ packet' = NextPacket
            /\ filePos' = filePos + BytesRead(fileLen, filePos)
       ELSE UNCHANGED <<packet, filePos>>
    /\ toReceiver' = toReceiver \cup {DataPacket(packet', packet'.off)}
    /\ sentData' = sentData \cup {packet'}
    /\ spc' = "ack"
    /\ UNCHANGED <<fileLen, target, bytesToTransfer, hsTimeoutS, seqNum, totalBytesSent,
                   timeout, retries, receiverVars, toSender, failures, delivCnt, ackCnt,
                   synAcked, firstSeq, lostAcks, counting, exitErrno, lossBudget>>

\* checkAck: recvfrom returned datagram d, cut to MAX_ACK_SIZE bytes
CheckAckRecv(d, keep) ==
    /\ spc = "ack"
    /\ d \in toSender
    /\ toSender' = IF keep THEN toSender ELSE toSender \ {d}
    /\ IF d.w0 # seqNum
       THEN /\ retries < MaxFailures
            /\ timeout' = Backoff(timeout)
            /\ retries' = retries + 1
            /\ failures' = failures + 1
            /\ UNCHANGED <<totalBytesSent, seqNum>>
       ELSE /\ totalBytesSent' = totalBytesSent + Accounted(BytesSentThisTime)
            /\ seqNum' = seqNum + 1
            /\ retries' = 0
            /\ timeout' = DEFAULT_TIMEOUT
            /\ failures' = 0
    /\ spc' = "send"
    /\ UNCHANGED <<fileLen, target, bytesToTransfer, hsTimeoutS, filePos, packet,
                   receiverVars, toReceiver, sentData, delivCnt, ackCnt, synAcked,
                   firstSeq, lostAcks, counting, exitErrno, lossBudget>>

\* checkAck: recvfrom timed out
CheckAckTimeout ==
    /\ spc = "ack"
    /\ failures' = failures + 1
    /\ IF RetryAllowed(retries)
       THEN /\ timeout' = Backoff(timeout)
            /\ retries' = retries + 1
            /\ spc' = "send"
            /\ UNCHANGED exitErrno
       ELSE /\ spc' = "abort"
            /\ exitErrno' = [exitErrno EXCEPT !.s = "EAGAIN"]
            /\ UNCHANGED <<timeout, retries>>
    /\ UNCHANGED <<fileLen, target, bytesToTransfer, hsTimeoutS, seqNum, totalBytesSent,
                   filePos, packet, receiverVars, toReceiver, toSender, sentData,
                   delivCnt, ackCnt, synAcked, firstSeq, lostAcks, counting, lossBudget>>

\* checkAck: recvfrom failed with an errno that is not a timeout: perror, exit(1)
CheckAckFault(e) ==
    /\ spc = "ack"
    /\ spc' = "abort"
    /\ exitErrno' = [exitErrno EXCEPT !.s = e]
    /\ UNCHANGED <<fileLen, target, bytesToTransfer, hsTimeoutS, seqNum, totalBytesSent,
                   filePos, packet, timeout, retries, receiverVars, toReceiver, toSender,
                   sentData, failures, delivCnt, ackCnt, synAcked, firstSeq, lostAcks,
                   counting, lossBudget>>

\* checkAck: recvfrom returned -1 with errno e
CheckAckRecvFail(e) == IF IsTimeout(e) THEN CheckAckTimeout ELSE CheckAckFault(e)

(* ---------------- receiver: establish_connection ---------------- *)

\* the outer recvfrom returned datagram d, read as a struct Syn: draw the
\* sequence number, enter the inner loop and send the first SynAck
ReceiverRecvSyn(d, keep) ==
    /\ rpc = "listen"
    /\ d \in toReceiver
    /\ RecvSize(d, SYN_SIZE) > 0
    /\ toReceiver' = IF keep THEN toReceiver ELSE toReceiver \ {d}
    /\ \E r \in Seeds :
         /\ syn_ack' = [sequenceNumber |-> r, ackNumber |-> d.w0 + 1]
         /\ toSender' = toSender \cup {SynAck(r, d.w0 + 1)}
    /\ hsTimeoutR' = SYN_ACK_DEFAULT_TIMEOUT_MILLISEC
    /\ synAcked' = d.w0
    /\ rpc' = "ackwait"
    /\ UNCHANGED <<fileLen, target, senderVars, latest, sink, sentData, failures,
                   delivCnt, ackCnt, firstSeq, lostAcks, counting, exitErrno, lossBudget>>

\* the outer recvfrom timed out: back off and listen again
ReceiverSynTimeout ==
    /\ rpc = "listen"
    /\ hsTimeoutR' = HandshakeBackoff(hsTimeoutR)
    /\ UNCHANGED <<fileLen, target, senderVars, rpc, syn_ack, latest, sink, toReceiver,
                   toSender, historyVars>>

\* the inner loop's test of a received struct Ack
AckMatches(a, sa) == a = sa.ackNumber

\* the inner recvfrom returned datagram d, read as a struct Ack: return when
\* it matches, otherwise go round the inner loop and send the SynAck again
ReceiverRecvAck(d, keep) ==
    /\ rpc = "ackwait"
    /\ d \in toReceiver
    /\ RecvSize(d, ACK_SIZE) > 0
    /\ toReceiver' = IF keep THEN toReceiver ELSE toReceiver \ {d}
    /\ IF AckMatches(d.w0, syn_ack)
       THEN /\ rpc' = "recv"
            /\ UNCHANGED toSender
       ELSE /\ toSender' = toSender \cup {SynAck(syn_ack.sequenceNumber, syn_ack.ackNumber)}
            /\ UNCHANGED rpc
    /\ UNCHANGED <<fileLen, target, senderVars, hsTimeoutR, syn_ack, latest, sink,
                   historyVars>>

\* the inner recvfrom timed out: back off and send the SynAck again
ReceiverAckTimeout ==
    /\ rpc = "ackwait"
    /\ hsTimeoutR' = HandshakeBackoff(hsTimeoutR)
    /\ toSender' = toSender \cup {SynAck(syn_ack.sequenceNumber, syn_ack.ackNumber)}
    /\ UNCHANGED <<fileLen, target, senderVars, rpc, syn_ack, latest, sink, toReceiver,
                   historyVars>>

\* a recvfrom of the handshake, outer or inner, failed with an errno that is
\* not a timeout: perror, exit(1)
ReceiverHandshakeFault(e) ==
    /\ rpc \in {"listen", "ackwait"}
    /\ rpc' = "abort"
    /\ exitErrno' = [exitErrno EXCEPT !.r = e]
    /\ UNCHANGED <<fileLen, target, senderVars, hsTimeoutR, syn_ack, latest, sink,
                   toReceiver, toSender, sentData, failures, delivCnt, ackCnt, synAcked,
                   firstSeq, lostAcks, counting, lossBudget>>

\* the outer recvfrom returned -1 with errno e
ReceiverSynRecvFail(e) ==
    IF IsTimeout(e) THEN ReceiverSynTimeout ELSE rpc = "listen" /\ ReceiverHandshakeFault(e)

\* the inner recvfrom returned -1 with errno e
ReceiverAckRecvFail(e) ==
    IF IsTimeout(e) THEN ReceiverAckTimeout ELSE rpc = "ackwait" /\ ReceiverHandshakeFault(e)

(* ---------------- receiver: rrecv ---------------- *)

\* memcpy(&header, packet, HEADER_SIZE) after a recvfrom of datagram d.  The
\* bytes of the header that d does not reach are bytes of the packet array
\* that nothing wrote: glen and glast stand for what they hold.
DecodeHeader(d, glen, glast) ==
    IF d.sz >= HEADER_SIZE
    THEN [sequenceNumber |-> d.w0, messageLength |-> d.w1, lastPacket |-> d.last,
          off |-> d.off]
    ELSE [sequenceNumber |-> d.w0,
          messageLength |-> IF d.sz >= 8 THEN d.w1 ELSE glen,
          lastPacket |-> glast,
          off |-> Garbage]

\* an rrecv that takes again the packet it accepted last
IsDuplicateBelow(seq, last) == seq < last

\* rrecv: the duplicate test
IsDuplicate(seq, last) == seq <= last

\* send_packet_ack: the data-ack for a sequence number
PacketAck(seq) == DataAck(seq)

\* rrecv: fwrite(packet_data, 1, header.messageLength, file); a write of no
\* bytes leaves the file as it is
Written(s, header) ==
    IF header.messageLength = 0 THEN s
    ELSE Append(s, [seq |-> header.sequenceNumber, off |-> header.off,
                    len |-> header.messageLength])

Bump(f, n) ==
    IF counting /\ n \in DOMAIN f THEN [f EXCEPT ![n] = Min(f[n] + 1, MaxCount)] ELSE f

\* one pass of the loop body: recvfrom returned datagram d
ReceiverRecvPacket(d, keep) ==
    /\ rpc = "recv"
    /\ d \in toReceiver
    /\ toReceiver' = IF keep THEN toReceiver ELSE toReceiver \ {d}
    /\ \E glen \in (IF d.sz >= HEADER_SIZE THEN {0} ELSE GarbageLens),
          glast \in (IF d.sz >= HEADER_SIZE THEN {FALSE} ELSE BOOLEAN) :
         LET header == DecodeHeader(d, glen, glast) IN
         /\ toSender' = toSender \cup {PacketAck(header.sequenceNumber)}
         /\ ackCnt' = Bump(ackCnt, header.sequenceNumber)
         /\ delivCnt' = IF d.sz >= HEADER_SIZE
                        THEN Bump(delivCnt, header.sequenceNumber) ELSE delivCnt
         /\ IF IsDuplicate(header.sequenceNumber, latest)
            THEN UNCHANGED <<sink, rpc, latest>>
            ELSE /\ sink' = Written(sink, header)
                 /\ IF header.lastPacket
                    THEN rpc' = "done" /\ UNCHANGED latest
                    ELSE latest' = header.sequenceNumber /\ UNCHANGED rpc
    /\ UNCHANGED <<fileLen, target, senderVars, hsTimeoutR, syn_ack, sentData, failures,
                   synAcked, firstSeq, lostAcks, counting, exitErrno, lossBudget>>

\* recvfrom returned -1 with errno e: perror, exit(1), whatever e is
ReceiverRecvFail(e) ==
    /\ rpc = "recv"
    /\ rpc' = "abort"
    /\ exitErrno' = [exitErrno EXCEPT !.r = e]
    /\ UNCHANGED <<fileLen, target, senderVars, hsTimeoutR, syn_ack, latest, sink,
                   toReceiver, toSender, sentData, failures, delivCnt, ackCnt, synAcked,
                   firstSeq, lostAcks, counting, lossBudget>>

\* recvfrom returned -1; the receive timeout the handshake set on the socket
\* is still in force, so this is also what a quiet network gives
ReceiverRecvTimeout == ReceiverRecvFail("EAGAIN")

(* ---------------- network ---------------- *)

\* The network drops a datagram on its way to the sender: a SynAck or a
\* data-ack.  A dropped data-ack for the packet the sender has outstanding is
\* noted.
DropToSender(d) ==
    /\ lossBudget > 0
    /\ d \in toSender
    /\ toSender' = toSender \ {d}
    /\ lossBudget' = lossBudget - 1
    /\ lostAcks' = IF d.sz = MAX_ACK_SIZE /\ spc \in {"send", "ack"} /\ d.w0 = seqNum
                       /\ \E p \in sentData : p.sequenceNumber = seqNum
                    THEN lostAcks \cup {seqNum} ELSE lostAcks
    /\ UNCHANGED <<fileLen, target, senderVars, receiverVars, toReceiver, sentData,
                   failures, delivCnt, ackCnt, synAcked, firstSeq, counting, exitErrno>>

\* The network drops a Syn: while the sender is in its handshake nothing else
\* is on its way to the receiver.
DropSyn(d) ==
    /\ lossBudget > 0
    /\ spc \in {"syn", "synack"}
    /\ d \in toReceiver
    /\ toReceiver' = toReceiver \ {d}
    /\ lossBudget' = lossBudget - 1
    /\ UNCHANGED <<fileLen, target, senderVars, receiverVars, toSender, sentData,
                   failures, delivCnt, ackCnt, synAcked, firstSeq, lostAcks, counting, exitErrno>>

(* ---------------- specifications ---------------- *)

\* Any loss, duplication and reordering: a datagram, once sent, may be
\* delivered at any later moment, any number of times, or never, and a
\* receive may time out whatever is in flight.
Next ==
    \/ SenderSendSyn
    \/ \E d \in toSender, keep \in {TRUE} : SenderRecvSynAck(d, keep)
    \/ SenderSynTimeout
    \/ SenderFinish
    \/ SenderSetsockoptFail
    \/ SenderSend
    \/ \E d \in toSender, keep \in {TRUE} : CheckAckRecv(d, keep)
    \/ CheckAckTimeout
    \/ \E d \in toReceiver, keep \in {TRUE} : ReceiverRecvSyn(d, keep)
    \/ ReceiverSynTimeout
    \/ \E d \in toReceiver, keep \in {TRUE} : ReceiverRecvAck(d, keep)
    \/ ReceiverAckTimeout
    \/ \E d \in toReceiver, keep \in {TRUE} : ReceiverRecvPacket(d, keep)
    \/ ReceiverRecvTimeout

Spec == Init /\ [][Next]_vars

SpecCount == InitCount /\ [][Next]_vars

\* The same network, and a socket whose recvfrom may also fail for good,
\* followed for one file sent whole.
InitErr == Init /\ fileLen \in Rems \ {0} /\ target = fileLen

NextErr ==
    \/ SenderSendSyn
    \/ \E d \in toSender : SenderRecvSynAck(d, TRUE)
    \/ \E e \in Errnos : SenderSynRecvFail(e)
    \/ SenderFinish
    \/ SenderSetsockoptFail
    \/ SenderSend
    \/ \E d \in toSender : CheckAckRecv(d, TRUE)
    \/ \E e \in Errnos : CheckAckRecvFail(e)
    \/ \E d \in toReceiver : ReceiverRecvSyn(d, TRUE)
    \/ \E e \in Errnos : ReceiverSynRecvFail(e)
    \/ \E d \in toReceiver : ReceiverRecvAck(d, TRUE)
    \/ \E e \in Errnos : ReceiverAckRecvFail(e)
    \/ \E d \in toReceiver : ReceiverRecvPacket(d, TRUE)
    \/ \E e \in Errnos : ReceiverRecvFail(e)

SpecErr == InitErr /\ [][NextErr]_vars

\* A network that drops at most MaxLoss datagrams (Syn, SynAck, data-ack) and
\* otherwise delivers each datagram once: a receive times out only when
\* nothing is in flight to the process.
SenderStep ==
    \/ SenderSendSyn
    \/ \E d \in toSender : SenderRecvSynAck(d, FALSE)
    \/ toSender = {} /\ SenderSynTimeout
    \/ SenderFinish
    \/ SenderSetsockoptFail
    \/ SenderSend
    \/ \E d \in toSender : CheckAckRecv(d, FALSE)
    \/ toSender = {} /\ CheckAckTimeout

ReceiverStep ==
    \/ \E d \in toReceiver : ReceiverRecvSyn(d, FALSE)
    \/ toReceiver = {} /\ ReceiverSynTimeout
    \/ \E d \in toReceiver : ReceiverRecvAck(d, FALSE)
    \/ toReceiver = {} /\ ReceiverAckTimeout
    \/ \E d \in toReceiver : ReceiverRecvPacket(d, FALSE)
    \/ toReceiver = {} /\ ReceiverRecvTimeout

NetworkStep ==
    \/ \E d \in toSender : DropToSender(d)
    \/ \E d \in toReceiver : DropSyn(d)

NextFair == SenderStep \/ ReceiverStep \/ NetworkStep

\* each process is scheduled: it always eventually takes its next step
FairSpec == InitFair /\ [][NextFair]_vars /\ WF_vars(SenderStep) /\ WF_vars(ReceiverStep)

(* ---------------- properties ---------------- *)

SenderEstablished == spc \notin {"syn", "synack"}
ReceiverEstablished == rpc \notin {"listen", "ackwait"}

\* The position reached by laying the writes of s end to end from pos, each
\* write holding the file bytes that start where the one before it stopped;
\* Garbage - 1 when a write holds anything else.  A write of no bytes writes
\* nothing.
RECURSIVE Laid(_, _)
Laid(s, pos) ==
    IF pos < 0 THEN Garbage - 1
    ELSE IF s = <<>> THEN pos
    ELSE IF Head(s).len = 0 THEN Laid(Tail(s), pos)
    ELSE IF Head(s).off = pos THEN Laid(Tail(s), pos + Head(s).len)
    ELSE Garbage - 1

\* the destination file holds exactly the first n bytes of the source
SinkIsPrefix(n) == Laid(sink, 0) = n

RECURSIVE SumLength(_)
SumLength(ps) ==
    IF ps = {} THEN 0
    ELSE LET p == CHOOSE q \in ps : TRUE IN p.messageLength + SumLength(ps \ {p})

LastPackets == {p \in sentData : p.lastPacket}

\* how often the payload of data packet n was written to the sink
WritesOf(n) == Cardinality({i \in 1..Len(sink) : sink[i].seq = n /\ sink[i].off # Garbage})

\* C1: round-trip integrity.  For a target no larger than the source, when
\* the receiver has finished, the sink holds exactly the first
\* min(fileLen, target) bytes of the source, in order, without gap or repeat,
\* whatever the network lost, duplicated or reordered.
C1_RoundTripIntegrity ==
    (target <= fileLen /\ rpc = "done") => SinkIsPrefix(Min(fileLen, target))

\* C2: for a target of at least one byte, among the distinct data packets of
\* a transfer the sender has completed exactly one carries lastPacket, and it
\* has the highest sequence number sent.
C2_OneLastPacket ==
    (target >= 1 /\ spc = "done") =>
        /\ Cardinality(LastPackets) = 1
        /\ \A l \in LastPackets : \A p \in sentData :
               p.sequenceNumber <= l.sequenceNumber

\* C3: every data packet carries at most MAX_BUFFER_SIZE payload bytes, and
\* the payload lengths of the distinct data packets of a completed transfer
\* add up to min(fileLen, target).
C3_SendsExactlyTarget ==
    /\ \A p \in sentData : p.messageLength <= MAX_BUFFER_SIZE
    /\ spc = "done" => SumLength(sentData) = Min(fileLen, target)

\* C4: duplicate suppression.  A data packet with sequence number n that the
\* receiver took twice had its payload written exactly once, and each of the
\* two deliveries produced a data-ack carrying n.
C4_DuplicateSuppression ==
    \A n \in SeqRange :
        delivCnt[n] >= 2 => (WritesOf(n) = 1 /\ ackCnt[n] >= 2)

\* C5: handshake convergence.  When the network drops at most MaxLoss Syn or
\* SynAck datagrams and then delivers, both sides eventually leave the
\* handshake, agreeing on the sequence number: the Syn the responder
\* acknowledged carries the number the initiator starts the transfer with.
C5_HandshakeConverges ==
    <>(SenderEstablished /\ ReceiverEstablished /\ synAcked = firstSeq)

FailureStep == failures' = failures + 1
\* a step in which checkAck accepted a matching ack
AcceptStep == spc = "ack" /\ seqNum' = seqNum + 1

\* C7: backoff monotonicity.  Every failure of checkAck that the sender
\* survives leaves the timeout strictly larger (the failure that exhausts the
\* retries ends the process, whose timeout is then never used again), and
\* no step but the acceptance of a matching ack makes the timeout smaller.
C7_BackoffMonotone ==
    [][/\ FailureStep => (timeout' > timeout \/ (spc' = "abort" /\ timeout' = timeout))
       /\ timeout' < timeout => AcceptStep]_vars

\* C7 witness: two failures in a row have doubled the timeout twice
C7_Witness ==
    spc = "send" /\ retries = 2 /\ failures = 2 /\ timeout = 4 * DEFAULT_TIMEOUT

\* C8: zero-length transfer.  With a target of 0 bytes the sender, when it
\* has finished, has emitted exactly one data packet, of messageLength 0 and
\* flagged lastPacket, and the receiver, when it has finished, has written
\* nothing.
C8_ZeroLengthTransfer ==
    target = 0 =>
        /\ spc = "done" =>
               /\ Cardinality(sentData) = 1
               /\ \A p \in sentData : p.messageLength = 0 /\ p.lastPacket
        /\ rpc = "done" => SinkIsPrefix(0)

\* C9: a source of 10000 bytes sent whole.  The sender, when it has
\* finished, has emitted exactly two distinct data packets, of 8192 and 1808
\* payload bytes, with consecutive sequence numbers, only the second flagged
\* lastPacket; the receiver, when it has finished, holds the 10000 bytes.
C9_TenThousandBytes ==
    (fileLen = 10000 /\ target = 10000) =>
        /\ spc = "done" =>
               \E a, b \in sentData :
                   /\ sentData = {a, b}
                   /\ a.messageLength = 8192 /\ ~a.lastPacket
                   /\ b.messageLength = 1808 /\ b.lastPacket
                   /\ b.sequenceNumber = a.sequenceNumber + 1
        /\ rpc = "done" => SinkIsPrefix(10000)

\* C10: forward progress after ack loss.  When the data-ack for the
\* outstanding packet n was dropped and the network delivers from then on,
\* the sender eventually accepts an ack for n and moves past it.
C10_ProgressAfterAckLoss ==
    \A n \in SeqRange : (n \in lostAcks) ~> (seqNum > n)

\* C11: a datagram shorter than the data-packet header ends the receiver at
\* once, so rrecv sends a data-ack only for a datagram that holds a whole
\* header (per sequence number, no more acks than such datagrams taken), and
\* nothing in the sink was written for a shorter one.
C11_ShortDatagramFatal ==
    /\ \A n \in SeqRange : ackCnt[n] <= delivCnt[n]
    /\ \A i \in 1..Len(sink) : sink[i].off # Garbage

\* C12: a receive timeout is not a hard error: the receiver is never found
\* terminated by a recvfrom that failed with the errno of a timeout.
C12_TimeoutNotFatal ==
    ~(rpc = "abort" /\ exitErrno.r \in TimeoutErrnos)

InHandshakeS(pc) == pc \in {"syn", "synack"}
InHandshakeR(pc) == pc \in {"listen", "ackwait"}

\* C13: no timeout ends the handshake.  A step that takes the initiator or
\* the responder out of its handshake either establishes the connection or
\* is the exit on a recvfrom that failed with an errno other than a
\* timeout's; and a timeout of the initiator changes nothing but its
\* timeout and its place in the loop, from which it sends a Syn again.
C13_HandshakeSurvivesTimeouts ==
    [][/\ (InHandshakeS(spc) /\ ~InHandshakeS(spc')) =>
              \/ spc' = "send"
              \/ spc' = "abort" /\ exitErrno'.s \in Errnos \ TimeoutErrnos
       /\ (InHandshakeR(rpc) /\ ~InHandshakeR(rpc')) =>
              \/ rpc' = "recv"
              \/ rpc' = "abort" /\ exitErrno'.r \in Errnos \ TimeoutErrnos
       /\ (spc = "synack" /\ toSender = {} /\ spc' = "syn") =>
              UNCHANGED <<seqNum, toReceiver, toSender, exitErrno, receiverVars>>]_vars

\* C13 witness: nothing was ever sent to the initiator, whose recvfrom has
\* therefore timed out before each of the Syns after the first; it is still
\* in its handshake and the responder still listens
C13_Witness ==
    /\ spc = "synack" /\ rpc = "listen" /\ toSender = {}
    /\ Cardinality({d \in toReceiver : d.sz = SYN_SIZE}) = 2
    /\ exitErrno = [s |-> NoErrno, r |-> NoErrno]

\* a step in which the initiator's recvfrom, with nothing in flight to it,
\* timed out and the loop went round to send the Syn again
SynTimeoutStep == spc = "synack" /\ toSender = {} /\ spc' = "syn"
\* a step in which the responder's inner recvfrom, with nothing in flight to
\* it, gave no Ack and the SynAck was sent again
AckTimeoutStep == rpc = "ackwait" /\ toReceiver = {} /\ toSender' # toSender

\* a step in which rsend sends a datagram: one pass of its loop body up to
\* the call of checkAck
SendStep == spc = "send" /\ spc' = "ack"

\* C16: a retransmission resends the same packet.  A send made while
\* retries > 0 leaves the packet buffer and the read position of the file as
\* they were, and its datagram is one sent before, with the same
\* sequenceNumber, messageLength, lastPacket and payload; the file is read
\* only in a step that starts with retries = 0.
C16_RetransmitSamePacket ==
    [][/\ (SendStep /\ retries > 0) =>
              /\ packet' = packet /\ filePos' = filePos
              /\ DataPacket(packet, packet.off) \in toReceiver
              /\ toReceiver' = toReceiver /\ sentData' = sentData
       /\ filePos' # filePos => (SendStep /\ retries = 0)]_vars

\* C16 witness: the second packet of a file has been sent three times, the
\* last two as retransmissions
C16_Witness ==
    /\ spc = "ack" /\ retries = 2
    /\ Cardinality(sentData) = 2 /\ packet.off = MAX_BUFFER_SIZE

\* the backoff rule of the handshake as documented
CappedDouble(t) == Min(2 * t, SYN_ACK_MAX_TIMEOUT_MILLISEC)

\* C14: handshake backoff rule.  Both handshake timeouts start at
\* SYN_ACK_DEFAULT_TIMEOUT_MILLISEC, and every handshake receive timeout
\* replaces the timeout t by min(2 * t, SYN_ACK_MAX_TIMEOUT_MILLISEC).
C14_HandshakeBackoffRule ==
    /\ hsTimeoutS = SYN_ACK_DEFAULT_TIMEOUT_MILLISEC /\ hsTimeoutR = SYN_ACK_DEFAULT_TIMEOUT_MILLISEC
    /\ [][/\ SynTimeoutStep => hsTimeoutS' = CappedDouble(hsTimeoutS)
          /\ AckTimeoutStep => hsTimeoutR' = CappedDouble(hsTimeoutR)]_vars

\* the Syn datagrams sent so far, while the initiator is in its handshake
\* (nothing else of that size is on its way to the responder then)
SynsSent == {d \in toReceiver : d.sz = SYN_SIZE}

\* C15: one initial sequence number per connection.  All the Syns of one
\* handshake carry the same sequence number, and the first data packet, the
\* one read from the start of the file, carries the number of a Syn sent.
C15_OneInitialSequenceNumber ==
    /\ spc \in {"syn", "synack"} => Cardinality(SynsSent) <= 1
    /\ \A p \in sentData : p.off = 0 => Syn(p.sequenceNumber) \in toReceiver

\* C17: running-total accounting.  Each acceptance of a matching data-ack
\* adds to totalBytesSent exactly the messageLength of the packet it
\* acknowledges, the one in the packet buffer.
C17_RunningTotal ==
    [][AcceptStep => totalBytesSent' = totalBytesSent + packet.messageLength]_vars

\* the sequence numbers of the writes to the sink increase strictly
SinkIncreasing ==
    \A i, j \in 1..Len(sink) : i < j => sink[i].seq < sink[j].seq

\* C18: receiver discard rule.  Every write to the sink is one write, of a
\* packet whose sequence number is above _latestSequenceNumber; a step that
\* changes _latestSequenceNumber raises it; every sequence number written,
\* but that of a final packet that ended the loop, is at most
\* _latestSequenceNumber; so the sequence numbers written increase strictly.
C18_DiscardRule ==
    /\ [](SinkIncreasing /\ \A i \in 1..Len(sink) :
                                 sink[i].seq <= latest \/ (i = Len(sink) /\ rpc = "done"))
    /\ [][/\ sink' # sink =>
                 /\ Len(sink') = Len(sink) + 1
                 /\ SubSeq(sink', 1, Len(sink)) = sink
                 /\ sink'[Len(sink')].seq > latest
          /\ latest' # latest => latest' > latest]_vars

\* C18 witness: the receiver is in its loop, and a data packet it has
\* written once, numbered at most _latestSequenceNumber, is still in the
\* network and is delivered to it again
C18_Witness ==
    \E d \in toReceiver :
        /\ d.sz >= HEADER_SIZE /\ d.w0 >= 1 /\ d.w0 <= latest
        /\ WritesOf(d.w0) = 1
        /\ rpc = "recv"

\* C19: a data packet flagged lastPacket that rrecv has taken, written or
\* discarded as a duplicate, has stopped the receive loop.
C19_LastPacketStops ==
    \A p \in sentData :
        (p.lastPacket /\ delivCnt[p.sequenceNumber] >= 1) => rpc = "done"

\* C20: handshake ack-number agreement.  While the responder waits for the
\* Ack of the SynAck it sent, the Ack the initiator forms from that SynAck,
\* ackNumber = SynAck.sequenceNumber + 1, is the one the responder's test
\* accepts.
C20_AckNumberAgreement ==
    rpc = "ackwait" => AckMatches(syn_ack.sequenceNumber + 1, syn_ack)

\* C21: ack authenticity.  When the sender accepts an ack for the
\* outstanding sequence number and advances, rrecv has taken the data packet
\* with that number: the responder has left its handshake and the packet has
\* gone through its duplicate test.
C21_AckAuthenticity ==
    [][AcceptStep =>
          /\ ReceiverEstablished
          /\ seqNum \in DOMAIN delivCnt /\ delivCnt[seqNum] >= 1]_vars

\* C22: whatever the initial sequence number, 0 included, the first data
\* packet of the transfer, the one read from the start of the file, is
\* written to the sink once rrecv has taken it.
C22_FirstPacketIsNew ==
    \A p \in sentData :
        (p.off = 0 /\ p.messageLength > 0 /\ delivCnt[p.sequenceNumber] >= 1)
            => WritesOf(p.sequenceNumber) >= 1

\* C23: completion agreement.  When the sender has left its send loop and
\* returned, the receiver has taken a packet flagged lastPacket and returned
\* as well.
C23_CompletionAgreement ==
    spc = "done" => rpc = "done"
====
